---- MODULE Spec2Model ----
(***************************************************************************)
(* The smart-HTTP client transport of git-transport                        *)
(* (src/git-transport/src/client/http/mod.rs): Transport::handshake,       *)
(* Transport::request, check_content_type, append_url and the              *)
(* HeadersThenBody reader, as a state machine.                             *)
(*                                                                         *)
(* Text.  A Rust string is a sequence of pieces, each piece a TLA+ string; *)
(* the string it stands for is the concatenation Flat(s).  The characters  *)
(* the code looks at one by one ("/", " ", "\n") are always pieces of      *)
(* their own, and no other piece starts or ends with one of them.  Two     *)
(* strings are equal iff their Flat values are equal.                      *)
(*                                                                         *)
(* Option<T>.  None is <<>> and Some(x) is <<x>>.                          *)
(***************************************************************************)
EXTENDS Integers, Sequences, FiniteSets, TLC

VARIABLES
    self,       \* the Transport: url, user_agent_header, version, service, line_provider
    gets,       \* number of Http::get calls the backend has received
    posts,      \* number of Http::post calls the backend has received
    last,       \* what the latest handshake/request call did and returned
    reply,      \* Option: the reply stream handed out by the latest request, while alive
    succeeded,  \* TRUE once some handshake call has returned Ok
    wrapper,    \* the HeadersThenBody value
    wlast,      \* what the latest call on the HeadersThenBody value did and returned
    pure        \* a call of a pure function: its name, arguments and, once made, result

vars == <<self, gets, posts, last, reply, succeeded, wrapper, wlast, pure>>

---------------------------------------------------------------------------
(* Bounds *)

MaxCalls == 3            \* handshake and request calls on one Transport
MaxReads == 3            \* read calls on one reply stream
MaxWrapperCalls == 4     \* calls on one HeadersThenBody value
MaxPieces == 2           \* pieces of a string passed to append_url
MaxHeaderLines == 2      \* lines of a header set passed to check_content_type

---------------------------------------------------------------------------
(* Text *)

None == <<>>
Some(x) == <<x>>

RECURSIVE Flat(_)
Flat(s) == IF s = <<>> THEN "" ELSE Head(s) \o Flat(Tail(s))

\* char::is_whitespace, on the pieces that occur
Whitespace == {" ", "\n", "\t", "\r"}

RECURSIVE trim_start(_)
trim_start(s) ==
    IF s # <<>> /\ Head(s) \in Whitespace THEN trim_start(Tail(s)) ELSE s

RECURSIVE trim_end(_)
trim_end(s) ==
    IF s # <<>> /\ s[Len(s)] \in Whitespace
    THEN trim_end(SubSeq(s, 1, Len(s) - 1))
    ELSE s

\* str::trim: leading and trailing whitespace removed
trim(s) == trim_end(trim_start(s))

\* str::ends_with('/')
ends_with_slash(s) == s # <<>> /\ s[Len(s)] = "/"

---------------------------------------------------------------------------
(* Service and Protocol *)

Service == {"UploadPack", "ReceivePack"}

\* Service::as_str: the protocol token of a service
as_str(service) ==
    IF service = "UploadPack" THEN "git-upload-pack" ELSE "git-receive-pack"

Protocol == {"V1", "V2"}

\* `version as usize`: the discriminant of a Protocol value
as_usize(version) == IF version = "V1" THEN 1 ELSE 2

\* the Display form of a usize, as format!("{}", n) writes it
usize_to_string(n) == ToString(n)

CARGO_PKG_VERSION == "0.1.0"

---------------------------------------------------------------------------
(* Header sets.  A header set is a sequence of lines; the line LineError   *)
(* stands for a line whose read returns an io::Error.                      *)

LineError == "<io::Error>"

\* Transport::check_content_type: "Ok", or the error it returns
wanted_content_type(service, kind) ==
    "Content-Type: application/x-" \o as_str(service) \o "-" \o kind

check_content_type_lenient(service, kind, headers) ==
    IF \E i \in 1..Len(headers) : headers[i] = LineError
    THEN "Io"
    ELSE IF \E i \in 1..Len(headers) :
               headers[i] \in {wanted_content_type(service, kind),
                               wanted_content_type(service, kind) \o "; charset=utf-8"}
         THEN "Ok"
         ELSE "Detail"

check_content_type(service, kind, headers) ==
    IF \E i \in 1..Len(headers) : headers[i] = LineError
    THEN "Io"
    ELSE IF \E i \in 1..Len(headers) : headers[i] = wanted_content_type(service, kind)
         THEN "Ok"
         ELSE "Detail"

\* the text of Error::Detail that check_content_type returns
content_type_detail(service, kind) ==
    "Didn't find '" \o wanted_content_type(service, kind)
        \o "' header to indicate 'smart' protocol, and 'dumb' protocol is not supported."

---------------------------------------------------------------------------
(* URL composition *)

append_url_always_slash(base, suffix) == base \o <<"/">> \o suffix

append_url(base, suffix) ==
    IF ends_with_slash(base)
    THEN base \o suffix
    ELSE base \o <<"/">> \o suffix

---------------------------------------------------------------------------
(* The packet-line reader, git_packetline::Provider, as the transport uses *)
(* it.  A body is [id, items]: id names the response it belongs to, items  *)
(* is what the packet-line decoder finds in it, one item per packet line:  *)
(* a data line with its text, the flush marker, or a line whose read or    *)
(* decoding fails.                                                         *)

Data(text) == [kind |-> "data", text |-> text]
Flush == [kind |-> "flush", text |-> <<>>]
Broken == [kind |-> "error", text |-> <<>>]

\* Provider::new(body, PacketLine::Flush).  inner is what is left of the
\* stream the reader is bound to and origin the body that stream belongs to;
\* created tells the readers apart: the call in which the reader was made.
Provider_new(body) ==
    [inner |-> body.items, origin |-> body.id, is_done |-> FALSE,
     created |-> body.id.n]

\* Provider::reset: forget that the stop marker was seen
Provider_reset(p) == [p EXCEPT !.is_done = FALSE]

\* Provider::replace(body): rebind to another stream and reset the framing state
Provider_replace(p, body) ==
    [p EXCEPT !.inner = body.items, !.origin = body.id, !.is_done = FALSE]

\* One read on a view of the provider (as_read, as_read_without_sidebands):
\* the next line's text, or end of stream at the stop marker (which is
\* consumed and remembered in is_done) and at the end of the body, or an
\* error.
read_line(p) ==
    IF p.is_done \/ p.inner = <<>>
    THEN [provider |-> p, result |-> "eof", text |-> <<>>]
    ELSE LET item == Head(p.inner)
             rest == [p EXCEPT !.inner = Tail(p.inner)]
         IN  IF item.kind = "flush"
             THEN [provider |-> [rest EXCEPT !.is_done = TRUE],
                   result |-> "eof", text |-> <<>>]
             ELSE IF item.kind = "error"
             THEN [provider |-> rest, result |-> "err", text |-> <<>>]
             ELSE [provider |-> rest, result |-> "data", text |-> item.text]

\* Read::read_to_string on as_read(): read until end of stream or an error
RECURSIVE read_to_string_from(_, _)
read_to_string_from(p, acc) ==
    LET r == read_line(p)
    IN  IF r.result = "data"
        THEN read_to_string_from(r.provider, acc \o r.text)
        ELSE [provider |-> r.provider, err |-> r.result = "err", text |-> acc]

read_to_string(p) == read_to_string_from(p, <<>>)

\* git::recv::capabilties_and_possibly_refs(line_reader, version): continues
\* after the stop marker, reads the advertisement up to the next one, and
\* fails when a line cannot be read or no capability line is there.  The
\* first line carries the capabilities; the references follow (V1 only).
capabilties_and_possibly_refs(p, version) ==
    LET r == read_to_string_from(Provider_reset(p), <<>>)
    IN  [provider |-> r.provider,
         ok |-> ~r.err /\ r.text # <<>>,
         capabilities |-> Flat(r.text),
         refs |-> IF version = "V1" THEN Some(Flat(r.text)) ELSE None]

---------------------------------------------------------------------------
(* The Transport.  The HTTP backend (the Http trait) is the environment:   *)
(* its answer to a call is resp, [failed, headers, body]; get and post     *)
(* return Err when resp.failed.                                            *)

Transport_new(url, version) ==
    [url |-> url,
     user_agent_header |-> "User-Agent: git/oxide-" \o CARGO_PKG_VERSION,
     version |-> version,
     service |-> None,
     line_provider |-> None]

\* What a call did and returned.  n numbers the calls on the Transport; arg
\* is the service passed to handshake and prior the Transport's service when
\* the call began; outcome is "Ok", "Err" (a returned client::Error, its kind
\* in error and its text in detail) or "Panic"; sent lists the HTTP calls the
\* call issued and headers is the header set the backend answered with;
\* read_from is the body the call's packet-line reads were served from and
\* announced the text read_to_string returned, if the call got that far;
\* parsed tells whether the capability parser was invoked; response is the
\* SetServiceResponse of a successful handshake.
Returned(t, n, op, arg, outcome, error, detail, sent, resp) ==
    [n |-> n, op |-> op, arg |-> arg, prior |-> t.service,
     outcome |-> outcome, error |-> error, detail |-> detail, sent |-> sent,
     headers |-> IF sent = <<>> \/ resp.failed THEN None ELSE Some(resp.headers),
     read_from |-> None, announced |-> None, parsed |-> FALSE, response |-> None]

\* Option::get_or_insert_with(|| Provider::new(body, PacketLine::Flush))
get_or_insert_with(line_provider, body) ==
    IF line_provider = None THEN Provider_new(body) ELSE line_provider[1]

\* What an error return of handshake leaves behind once the reader exists:
\* the reader stays in line_provider, the service is not touched
after_error_resetting(t, provider) ==
    [t EXCEPT !.line_provider = Some(provider), !.service = None]

after_error(t, provider) ==
    [t EXCEPT !.line_provider = Some(provider)]

\* self.http.get(..)? and self.http.post(..)?: the HTTP calls made for one
\* request, whatever the backend answers
issue_retrying(req, resp) == IF resp.failed THEN <<req, req>> ELSE <<req>>

issue(req, resp) == <<req>>

\* What a successful handshake leaves behind: the reader, and the service
after_success_not_recording(t, provider, service) ==
    [t EXCEPT !.line_provider = Some(provider)]

after_success_taking_reader(t, provider, service) ==
    [t EXCEPT !.line_provider = None, !.service = Some(service)]

after_success(t, provider, service) ==
    [t EXCEPT !.line_provider = Some(provider), !.service = Some(service)]

static_headers(t) == <<t.user_agent_header>>

dynamic_headers_always(version) ==
    <<"Git-Protocol: version=" \o usize_to_string(as_usize(version))>>

dynamic_headers(version) ==
    IF version # "V1"
    THEN <<"Git-Protocol: version=" \o usize_to_string(as_usize(version))>>
    ELSE <<>>

expected_service_announcement_fixed(service) == <<"# service=", "git-upload-pack">>

expected_service_announcement(service) == <<"# service=", as_str(service)>>

\* format!("{:?}", s) of a string: quoted, with its control characters escaped
RECURSIVE escape_debug(_)
escape_debug(s) ==
    IF s = <<>> THEN ""
    ELSE (CASE Head(s) = "\n" -> "\\n"
            [] Head(s) = "\t" -> "\\t"
            [] Head(s) = "\r" -> "\\r"
            [] OTHER -> Head(s)) \o escape_debug(Tail(s))

debug_fmt(s) == "\"" \o escape_debug(s) \o "\""

announcement_detail(expected, actual) ==
    "Expected to see " \o debug_fmt(expected) \o ", but got " \o debug_fmt(actual)

\* Transport::handshake, from the reader on (lines 79-100)
handshake_read(t, n, service, sent, resp) ==
    LET line_reader == get_or_insert_with(t.line_provider, resp.body)
        rd == read_to_string(line_reader)
        expected == expected_service_announcement(service)
        ret == [Returned(t, n, "handshake", Some(service), "Err", "Io", "", sent, resp)
                    EXCEPT !.read_from = Some(line_reader.origin)]
    IN  IF rd.err
        THEN [self |-> after_error(t, rd.provider), ret |-> ret]
        ELSE IF Flat(trim(rd.text)) # Flat(expected)
        THEN [self |-> after_error(t, rd.provider),
              ret |-> [ret EXCEPT !.error = "Announcement",
                                  !.detail = announcement_detail(expected, trim(rd.text)),
                                  !.announced = Some(rd.text)]]
        ELSE LET caps == capabilties_and_possibly_refs(rd.provider, t.version)
             IN  IF ~caps.ok
                 THEN [self |-> after_error(t, caps.provider),
                       ret |-> [ret EXCEPT !.error = "Parse",
                                           !.announced = Some(rd.text),
                                           !.parsed = TRUE]]
                 ELSE [self |-> after_success(t, caps.provider, service),
                       ret |-> [ret EXCEPT !.outcome = "Ok", !.error = "",
                                           !.announced = Some(rd.text),
                                           !.parsed = TRUE,
                                           !.response = Some(
                                               [actual_protocol |-> t.version,
                                                capabilities |-> caps.capabilities,
                                                refs |-> caps.refs])]]

handshake_gate_late(t, n, service, resp) ==
    LET url == append_url(t.url, <<"info/refs?service=", as_str(service)>>)
        sent == issue([verb |-> "GET", url |-> url,
                       headers |-> static_headers(t) \o dynamic_headers(t.version)], resp)
        gate == check_content_type(service, "advertisement", resp.headers)
        r == handshake_read(t, n, service, sent, resp)
    IN  IF resp.failed
        THEN [self |-> t,
              ret |-> Returned(t, n, "handshake", Some(service), "Err", "Backend", "",
                               sent, resp)]
        ELSE IF gate # "Ok"
        THEN [self |-> after_error(t, r.self.line_provider[1]),
              ret |-> [Returned(t, n, "handshake", Some(service), "Err", gate,
                                IF gate = "Detail"
                                THEN content_type_detail(service, "advertisement")
                                ELSE "",
                                sent, resp)
                          EXCEPT !.read_from = r.ret.read_from]]
        ELSE r

\* Transport::handshake
handshake(t, n, service, resp) ==
    LET url == append_url(t.url, <<"info/refs?service=", as_str(service)>>)
        sent == issue([verb |-> "GET", url |-> url,
                       headers |-> static_headers(t) \o dynamic_headers(t.version)], resp)
        gate == check_content_type(service, "advertisement", resp.headers)
    IN  IF resp.failed
        THEN [self |-> t,
              ret |-> Returned(t, n, "handshake", Some(service), "Err", "Backend", "",
                               sent, resp)]
        ELSE IF gate # "Ok"
        THEN [self |-> t,
              ret |-> Returned(t, n, "handshake", Some(service), "Err", gate,
                               IF gate = "Detail"
                               THEN content_type_detail(service, "advertisement")
                               ELSE "",
                               sent, resp)]
        ELSE handshake_read(t, n, service, sent, resp)

\* The reply stream a successful request hands out inside the RequestWriter:
\* a view on the Transport's line_provider.  headers is the header set of the
\* POST response and body its body, as the backend returned them.
\* reads counts the reads on it, first is the result of the first one,
\* delivered the lines read so far, eof whether end of stream was returned.
\* write_mode and on_drop go to the RequestWriter as they are.
ReplyStream(resp, write_mode, on_drop) ==
    [headers |-> resp.headers, body |-> resp.body,
     write_mode |-> write_mode, on_drop |-> on_drop,
     reads |-> 0, first |-> "none", delivered |-> <<>>, eof |-> FALSE]

\* self.service.expect("handshake() must have been called first"): None panics
expect_service_or_default(t) ==
    IF t.service = None THEN Some("UploadPack") ELSE t.service

expect_service(t) == t.service

\* line_provider.replace(body)
rebind_nothing(line_provider, body) == line_provider

rebind_fresh(line_provider, body) == Provider_new(body)

rebind(line_provider, body) == Provider_replace(line_provider, body)

\* Transport::request
request(t, n, resp, write_mode, on_drop) ==
    IF expect_service(t) = None
    THEN [self |-> t, reply |-> None,
          ret |-> Returned(t, n, "request", None, "Panic", "expect",
                           "handshake() must have been called first", <<>>, resp)]
    ELSE
    LET service == expect_service(t)[1]
        url == append_url(t.url, <<as_str(service)>>)
        headers == <<"Content-Type: application/x-git-" \o as_str(service) \o "-request",
                     "Accept: application/x-git-" \o as_str(service) \o "-result",
                     "Expect:">>
        sent == issue([verb |-> "POST", url |-> url, headers |-> headers], resp)
    IN  IF resp.failed
        THEN [self |-> t, reply |-> None,
              ret |-> Returned(t, n, "request", None, "Err", "Backend", "", sent, resp)]
        ELSE IF t.line_provider = None
        THEN [self |-> t, reply |-> None,
              ret |-> Returned(t, n, "request", None, "Panic", "expect",
                               "handshake to have been called first", sent, resp)]
        ELSE [self |-> [t EXCEPT !.line_provider =
                                    Some(rebind(t.line_provider[1], resp.body))],
              reply |-> Some(ReplyStream(resp, write_mode, on_drop)),
              ret |-> Returned(t, n, "request", None, "Ok", "", "", sent, resp)]

---------------------------------------------------------------------------
(* The deferred-validation reader, HeadersThenBody.  Its body is any        *)
(* SetProgressHandlerBufRead: the chunks still to be read and the progress *)
(* handler set on it.                                                      *)

HeadersThenBody(service, headers, chunks) ==
    [service |-> service, headers |-> Some(headers),
     body |-> [chunks |-> chunks, handler |-> None]]

handle_headers_keeping(w) ==
    IF w.headers # None
    THEN [wrapper |-> w,
          checked |-> TRUE,
          result |-> IF check_content_type(w.service, "result", w.headers[1]) = "Ok"
                     THEN "Ok" ELSE "Err"]
    ELSE [wrapper |-> w, checked |-> FALSE, result |-> "Ok"]

handle_headers_clearing_on_success(w) ==
    IF w.headers # None
    THEN LET ok == check_content_type(w.service, "result", w.headers[1]) = "Ok"
         IN  [wrapper |-> IF ok THEN [w EXCEPT !.headers = None] ELSE w,
              checked |-> TRUE,
              result |-> IF ok THEN "Ok" ELSE "Err"]
    ELSE [wrapper |-> w, checked |-> FALSE, result |-> "Ok"]

\* HeadersThenBody::handle_headers: the value afterwards, whether the
\* content-type check was invoked, and the io::Result
handle_headers(w) ==
    IF w.headers # None
    THEN [wrapper |-> [w EXCEPT !.headers = None],
          checked |-> TRUE,
          result |-> IF check_content_type(w.service, "result", w.headers[1]) = "Ok"
                     THEN "Ok" ELSE "Err"]
    ELSE [wrapper |-> w, checked |-> FALSE, result |-> "Ok"]

\* What a call on the wrapper did: n counts the calls, readlike the read and
\* fill_buf calls among them, checks the invocations of check_content_type,
\* delegated the read and fill_buf calls passed on to the body.
WrapperReturned(prev, op, result, data, checked, delegated) ==
    [n |-> prev.n + 1, op |-> op, result |-> result, data |-> data,
     readlike |-> prev.readlike + (IF op \in {"read", "fill_buf"} THEN 1 ELSE 0),
     checks |-> prev.checks + (IF checked THEN 1 ELSE 0),
     delegated |-> prev.delegated + (IF delegated THEN 1 ELSE 0),
     first |-> IF prev.first = "none" /\ op \in {"read", "fill_buf"}
               THEN result ELSE prev.first]

\* <HeadersThenBody as io::Read>::read, with a buffer that takes one chunk
HeadersThenBody_read(w, prev) ==
    LET h == handle_headers(w)
        chunks == h.wrapper.body.chunks
    IN  IF h.result # "Ok"
        THEN [wrapper |-> h.wrapper,
              ret |-> WrapperReturned(prev, "read", "Err", <<>>, h.checked, FALSE)]
        ELSE [wrapper |-> [h.wrapper EXCEPT !.body.chunks =
                              IF chunks = <<>> THEN <<>> ELSE Tail(chunks)],
              ret |-> WrapperReturned(prev, "read", "Ok",
                                      IF chunks = <<>> THEN <<>> ELSE <<Head(chunks)>>,
                                      h.checked, TRUE)]

\* <HeadersThenBody as io::BufRead>::fill_buf
HeadersThenBody_fill_buf(w, prev) ==
    LET h == handle_headers(w)
    IN  IF h.result # "Ok"
        THEN [wrapper |-> h.wrapper,
              ret |-> WrapperReturned(prev, "fill_buf", "Err", <<>>, h.checked, FALSE)]
        ELSE [wrapper |-> h.wrapper,
              ret |-> WrapperReturned(prev, "fill_buf", "Ok", h.wrapper.body.chunks,
                                      h.checked, TRUE)]

\* <HeadersThenBody as io::BufRead>::consume
HeadersThenBody_consume(w, prev, amt) ==
    [wrapper |-> [w EXCEPT !.body.chunks = SubSeq(@, amt + 1, Len(@))],
     ret |-> WrapperReturned(prev, "consume", "Ok", <<>>, FALSE, FALSE)]

\* <HeadersThenBody as SetProgressHandlerBufRead>::set_progress_handler
HeadersThenBody_set_progress_handler(w, prev, handle_progress) ==
    [wrapper |-> [w EXCEPT !.body.handler = handle_progress],
     ret |-> WrapperReturned(prev, "set_progress_handler", "Ok", <<>>, FALSE, FALSE)]

---------------------------------------------------------------------------
(* The environment: what callers pass and what servers answer *)

BaseUrls == {<<"https://example.com/repo.git">>, <<"https://example.com/repo.git", "/">>}

ServiceLine(service) == Data(<<"# service=", as_str(service), "\n">>)
PaddedServiceLine(service) == Data(<<" ", "# service=", as_str(service), " ", "\n">>)
AdvertisedRefs == Data(<<"0000000000000000000000000000000000000000 capabilities^{}", "\n">>)
Nak == Data(<<"NAK", "\n">>)

GetHeaderSets ==
    {<<"Content-Type: application/x-git-upload-pack-advertisement">>,
     <<"Cache-Control: no-cache", "Content-Type: application/x-git-receive-pack-advertisement">>,
     <<"Content-Type: application/x-git-upload-pack-advertisement; charset=utf-8">>,
     <<"Cache-Control: no-cache", LineError>>}

GetBodies ==
    {<<ServiceLine("UploadPack"), Flush, AdvertisedRefs, Flush>>,
     <<ServiceLine("ReceivePack"), Flush, AdvertisedRefs, Flush>>,
     <<PaddedServiceLine("UploadPack"), Flush, AdvertisedRefs, Flush>>,
     <<ServiceLine("UploadPack"), AdvertisedRefs, Flush>>,
     <<ServiceLine("UploadPack"), Flush, Flush>>,
     <<Broken>>}

PostHeaderSets ==
    {<<"Content-Type: application/x-git-upload-pack-result">>,
     <<"Content-Type: application/x-git-receive-pack-result">>,
     <<"Content-Type: text/html">>,
     <<LineError>>}

PostBodies ==
    {<<Nak, Flush>>,
     <<ServiceLine("ReceivePack"), Flush, AdvertisedRefs, Flush>>,
     <<>>}

\* client::WriteMode and the Vec<client::MessageKind> passed as on_drop
WriteModes == {"Binary", "OneLFTerminatedLinePerWriteCall"}
OnDrops == {<<>>, <<"Flush">>}

Failure == [failed |-> TRUE, headers |-> <<>>, body |-> [id |-> None, items |-> <<>>]]

Responses(verb, n, headerSets, bodies) ==
    {Failure} \cup
    {[failed |-> FALSE, headers |-> h, body |-> [id |-> [verb |-> verb, n |-> n], items |-> b]] :
        h \in headerSets, b \in bodies}

Issued(sent, verb) == Len(SelectSeq(sent, LAMBDA req : req.verb = verb))

---------------------------------------------------------------------------
(* Specification of the Transport *)

NoCall == Returned([service |-> None], 0, "new", None, "Ok", "", "", <<>>, Failure)
NoPureCall == [fn |-> "none", args |-> <<>>, done |-> FALSE, result |-> <<>>]
NoWrapperCall ==
    [n |-> 0, op |-> "new", result |-> "Ok", data |-> <<>>, readlike |-> 0,
     checks |-> 0, delegated |-> 0, first |-> "none"]

Init ==
    /\ \E url \in BaseUrls, version \in Protocol : self = Transport_new(url, version)
    /\ gets = 0
    /\ posts = 0
    /\ last = NoCall
    /\ reply = None
    /\ succeeded = FALSE
    /\ wrapper = HeadersThenBody("UploadPack", <<>>, <<>>)
    /\ wlast = NoWrapperCall
    /\ pure = NoPureCall

\* a caller calls handshake(service); the reply stream of an earlier request
\* borrows the Transport mutably, so none is alive
Handshake ==
    /\ last.n < MaxCalls
    /\ reply = None
    /\ \E service \in Service :
       \E resp \in Responses("GET", last.n + 1, GetHeaderSets, GetBodies) :
          LET r == handshake(self, last.n + 1, service, resp)
          IN  /\ self' = r.self
              /\ last' = r.ret
              /\ gets' = gets + Issued(r.ret.sent, "GET")
              /\ posts' = posts + Issued(r.ret.sent, "POST")
              /\ succeeded' = IF r.ret.outcome = "Ok" THEN TRUE ELSE succeeded
    /\ UNCHANGED <<reply, wrapper, wlast, pure>>

\* a caller calls request(write_mode, on_drop)
Request ==
    /\ last.n < MaxCalls
    /\ reply = None
    /\ \E resp \in Responses("POST", last.n + 1, PostHeaderSets, PostBodies) :
       \E write_mode \in WriteModes, on_drop \in OnDrops :
          LET r == request(self, last.n + 1, resp, write_mode, on_drop)
          IN  /\ self' = r.self
              /\ last' = r.ret
              /\ reply' = r.reply
              /\ gets' = gets + Issued(r.ret.sent, "GET")
              /\ posts' = posts + Issued(r.ret.sent, "POST")
    /\ UNCHANGED <<succeeded, wrapper, wlast, pure>>

\* the caller reads from the reply stream: one read on the view of line_provider
ReplyRead ==
    /\ reply # None
    /\ reply[1].reads < MaxReads
    /\ LET r == read_line(self.line_provider[1])
       IN  /\ self' = [self EXCEPT !.line_provider = Some(r.provider)]
           /\ reply' = Some([reply[1] EXCEPT
                  !.reads = @ + 1,
                  !.first = IF reply[1].reads = 0 THEN r.result ELSE @,
                  !.delivered = IF r.result = "data" THEN Append(@, Flat(r.text)) ELSE @,
                  !.eof = IF r.result = "eof" THEN TRUE ELSE @])
    /\ UNCHANGED <<gets, posts, last, succeeded, wrapper, wlast, pure>>

\* the caller drops the RequestWriter, and the reply stream with it
ReplyDrop ==
    /\ reply # None
    /\ reply' = None
    /\ UNCHANGED <<self, gets, posts, last, succeeded, wrapper, wlast, pure>>

Next == Handshake \/ Request \/ ReplyRead \/ ReplyDrop

Spec == Init /\ [][Next]_vars

---------------------------------------------------------------------------
(* Specification of a HeadersThenBody value *)

BodyChunks == {<<>>, <<"a">>, <<"a", "b">>}
ProgressHandlers == {None, Some("handle_progress")}

WrapperInit ==
    /\ self = Transport_new(<<"https://example.com/repo.git">>, "V1")
    /\ gets = 0
    /\ posts = 0
    /\ last = NoCall
    /\ reply = None
    /\ succeeded = FALSE
    /\ \E service \in Service, headers \in PostHeaderSets, chunks \in BodyChunks :
          wrapper = HeadersThenBody(service, headers, chunks)
    /\ wlast = NoWrapperCall
    /\ pure = NoPureCall

WrapperStep(r) ==
    /\ wrapper' = r.wrapper
    /\ wlast' = r.ret
    /\ UNCHANGED <<self, gets, posts, last, reply, succeeded, pure>>

WrapperRead ==
    /\ wlast.n < MaxWrapperCalls
    /\ WrapperStep(HeadersThenBody_read(wrapper, wlast))

WrapperFillBuf ==
    /\ wlast.n < MaxWrapperCalls
    /\ WrapperStep(HeadersThenBody_fill_buf(wrapper, wlast))

\* consume(amt), amt at most the length of the buffer fill_buf returned
WrapperConsume ==
    /\ wlast.n < MaxWrapperCalls
    /\ \E amt \in 0..Len(wrapper.body.chunks) :
          WrapperStep(HeadersThenBody_consume(wrapper, wlast, amt))

WrapperSetProgressHandler ==
    /\ wlast.n < MaxWrapperCalls
    /\ \E handle_progress \in ProgressHandlers :
          WrapperStep(HeadersThenBody_set_progress_handler(wrapper, wlast, handle_progress))

WrapperNext ==
    WrapperRead \/ WrapperFillBuf \/ WrapperConsume \/ WrapperSetProgressHandler

WrapperSpec == WrapperInit /\ [][WrapperNext]_vars

---------------------------------------------------------------------------
(* Specification of the pure functions: one call of append_url or of       *)
(* check_content_type, on arguments drawn from small sets                  *)

SeqsUpTo(S, n) == UNION {[1..k -> S] : k \in 0..n}

UrlPieces == {"/", "repo.git", "info"}

HeaderLines ==
    {"Content-Type: application/x-git-upload-pack-advertisement",
     "Content-Type: application/x-git-upload-pack-advertisement; charset=utf-8",
     "content-type: application/x-git-upload-pack-advertisement",
     "Content-Type: application/x-git-receive-pack-result",
     LineError}

Kinds == {"advertisement", "result"}

PureInit ==
    /\ self = Transport_new(<<"https://example.com/repo.git">>, "V1")
    /\ gets = 0
    /\ posts = 0
    /\ last = NoCall
    /\ reply = None
    /\ succeeded = FALSE
    /\ wrapper = HeadersThenBody("UploadPack", <<>>, <<>>)
    /\ wlast = NoWrapperCall
    /\ pure \in
          {[fn |-> "append_url", args |-> <<base, suffix>>, done |-> FALSE, result |-> <<>>] :
              base \in SeqsUpTo(UrlPieces, MaxPieces), suffix \in SeqsUpTo(UrlPieces, MaxPieces)}
          \cup
          {[fn |-> "check_content_type", args |-> <<service, kind, headers>>,
            done |-> FALSE, result |-> <<>>] :
              service \in Service, kind \in Kinds,
              headers \in SeqsUpTo(HeaderLines, MaxHeaderLines)}

CallAppendUrl ==
    /\ pure.fn = "append_url"
    /\ ~pure.done
    /\ pure' = [pure EXCEPT !.done = TRUE,
                            !.result = append_url(pure.args[1], pure.args[2])]
    /\ UNCHANGED <<self, gets, posts, last, reply, succeeded, wrapper, wlast>>

CallCheckContentType ==
    /\ pure.fn = "check_content_type"
    /\ ~pure.done
    /\ pure' = [pure EXCEPT !.done = TRUE,
                            !.result = Some(check_content_type(pure.args[1], pure.args[2],
                                                               pure.args[3]))]
    /\ UNCHANGED <<self, gets, posts, last, reply, succeeded, wrapper, wlast>>

PureNext == CallAppendUrl \/ CallCheckContentType

PureSpec == PureInit /\ [][PureNext]_vars

---------------------------------------------------------------------------
(* Properties *)

\* the texts of the data lines of a body up to its first flush marker
RECURSIVE UpToFlush(_)
UpToFlush(items) ==
    IF items = <<>> \/ Head(items).kind # "data"
    THEN <<>>
    ELSE <<Flat(Head(items).text)>> \o UpToFlush(Tail(items))

IsPrefix(a, b) == Len(a) <= Len(b) /\ a = SubSeq(b, 1, Len(a))

HasLine(headers, line) == \E i \in 1..Len(headers) : headers[i] = line

\* C1: as long as no handshake call has succeeded, no POST has been issued,
\* and a request call panics without issuing any backend call and without
\* handing out a reply stream.
C1_RequestBeforeHandshakeFailsFast ==
    ~succeeded =>
        /\ posts = 0
        /\ last.op = "request" =>
              /\ last.outcome = "Panic"
              /\ last.sent = <<>>
              /\ reply = None

\* C1 witness: request was called after a handshake that failed, and panicked
C1_Witness ==
    /\ ~succeeded
    /\ last.op = "request"
    /\ last.outcome = "Panic"
    /\ gets = 1

\* C2: until a handshake call has succeeded, the service and the packet-line
\* reader are both None.
C2_ServiceAndReaderNoneUntilSuccess ==
    ~succeeded => (self.service = None /\ self.line_provider = None)

\* C3: when the header set of the POST response lacks the line
\* Content-Type: application/x-<service>-result, the first read of the reply
\* stream returns an error.
C3_ReplyValidatedOnFirstRead ==
    (/\ reply # None
     /\ reply[1].reads > 0
     /\ check_content_type(self.service[1], "result", reply[1].headers) # "Ok")
        => reply[1].first = "err"

\* C4: check_content_type has been invoked zero times as long as neither read
\* nor fill_buf was called on the HeadersThenBody value, and exactly once
\* from the first such call on, whatever other calls are made.
C4_CheckedExactlyOnceIfRead ==
    wlast.checks = IF wlast.readlike = 0 THEN 0 ELSE 1

\* C4 witness: two read or fill_buf calls among four calls, one check
C4_Witness ==
    /\ wlast.n = 4
    /\ wlast.readlike = 2
    /\ wlast.checks = 1

\* C5: a handshake call that read the announcement returns Ok only if the
\* trimmed text is "# service=<token of the service>"; when it differs the
\* call returns the announcement-mismatch error whose text quotes the
\* expected and the actual text, the capability parser is not invoked and
\* the service stays what it was.
C5_AnnouncementMustMatch ==
    (last.op = "handshake" /\ last.announced # None) =>
        LET actual == trim(last.announced[1])
            expected == "# service=" \o as_str(last.arg[1])
        IN  IF Flat(actual) = expected
            THEN last.error # "Announcement"
            ELSE /\ last.outcome = "Err"
                 /\ last.error = "Announcement"
                 /\ last.detail = "Expected to see \"" \o expected
                                     \o "\", but got " \o debug_fmt(actual)
                 /\ ~last.parsed
                 /\ self.service = last.prior

\* C5 witness: upload-pack requested, git-receive-pack announced
C5_Witness ==
    /\ last.op = "handshake"
    /\ last.arg = Some("UploadPack")
    /\ last.announced # None
    /\ Flat(trim(last.announced[1])) = "# service=git-receive-pack"
    /\ last.error = "Announcement"

\* C6: a handshake call whose GET response lacks the advertisement
\* content-type line returns the protocol-mismatch error naming that line
\* (or the I/O error of reading the header set) after exactly one GET,
\* reads nothing from the body and leaves service and reader as they were.
C6_GateBeforeBody ==
    [][(/\ last'.n = last.n + 1
        /\ last'.op = "handshake"
        /\ last'.headers # None
        /\ ~HasLine(last'.headers[1],
                    "Content-Type: application/x-" \o as_str(last'.arg[1]) \o "-advertisement"))
       => /\ last'.outcome = "Err"
          /\ last'.error = IF HasLine(last'.headers[1], LineError) THEN "Io" ELSE "Detail"
          /\ last'.error = "Detail" =>
                last'.detail = "Didn't find 'Content-Type: application/x-"
                    \o as_str(last'.arg[1]) \o "-advertisement"
                    \o "' header to indicate 'smart' protocol, and 'dumb' protocol is not supported."
          /\ gets' = gets + 1
          /\ posts' = posts
          /\ last'.read_from = None
          /\ self' = self]_vars

\* C6 witness: the gate failed in a handshake on a Transport that had a reader
C6_Witness ==
    /\ last.op = "handshake"
    /\ last.error = "Detail"
    /\ last.read_from = None
    /\ self.line_provider # None

\* C7: the reply stream of a request delivers the lines of the POST response
\* body up to its first flush marker and ends there, also though the reader
\* had stopped at a flush marker of the GET body.
C7_ReplyNotCutShort ==
    reply # None =>
        LET expected == UpToFlush(reply[1].body.items)
        IN  /\ IsPrefix(reply[1].delivered, expected)
            /\ reply[1].eof => reply[1].delivered = expected
            /\ reply[1].reads > Len(reply[1].delivered) => reply[1].eof

\* C7 witness: the reply stream was read to its end and delivered a line
C7_Witness ==
    /\ reply # None
    /\ reply[1].eof
    /\ reply[1].delivered = <<"NAK\n">>

\* C8, as stated: a call that began with the service set ends with the same
\* service.
C8_ServiceNeverChanges ==
    last.prior # None => self.service = last.prior

\* C8, amended: once set, the service never becomes None again, and a call
\* changes it only when it is a handshake call that returns Ok, to the
\* service of that call.
C8_ServiceChangesOnlyBySuccessfulHandshake ==
    [][self.service # None =>
          /\ self'.service # None
          /\ self'.service # self.service =>
                /\ last'.n = last.n + 1
                /\ last'.op = "handshake"
                /\ last'.outcome = "Ok"
                /\ self'.service = last'.arg]_vars

\* C8 witness: a handshake for receive-pack succeeded on a Transport whose
\* service was upload-pack
C8_Witness ==
    /\ last.op = "handshake"
    /\ last.outcome = "Ok"
    /\ last.prior = Some("UploadPack")
    /\ self.service = Some("ReceivePack")

\* C9: the POST of a request goes to base URL + "/" + token and carries
\* Content-Type: application/x-<token>-request, Accept:
\* application/x-<token>-result and an empty Expect:, the media type in
\* Accept being the one check_content_type requires for kind "result".
C9_PostUrlAndHeaders ==
    (last.op = "request" /\ last.sent # <<>>) =>
        LET req == last.sent[1]
            token == as_str(last.prior[1])
            base == IF ends_with_slash(self.url) THEN Flat(self.url)
                    ELSE Flat(self.url) \o "/"
        IN  /\ Len(last.sent) = 1
            /\ req.verb = "POST"
            /\ Flat(req.url) = base \o token
            /\ req.headers = <<"Content-Type: application/x-" \o token \o "-request",
                               "Accept: application/x-" \o token \o "-result",
                               "Expect:">>
            /\ check_content_type(last.prior[1], "result",
                                  <<"Content-Type: " \o "application/x-" \o token \o "-result">>) = "Ok"

\* C10: the GET of a handshake goes to base URL + "/" (unless the base URL
\* ends with one) + "info/refs?service=<token>", and carries the User-Agent
\* header always and Git-Protocol: version=<N> exactly when the version is
\* not V1.
C10_GetUrlAndHeaders ==
    last.op = "handshake" =>
        LET req == last.sent[1]
            base == IF ends_with_slash(self.url) THEN Flat(self.url)
                    ELSE Flat(self.url) \o "/"
        IN  /\ Len(last.sent) = 1
            /\ req.verb = "GET"
            /\ Flat(req.url) = base \o "info/refs?service=" \o as_str(last.arg[1])
            /\ req.headers =
                  IF self.version = "V1"
                  THEN <<"User-Agent: git/oxide-" \o CARGO_PKG_VERSION>>
                  ELSE <<"User-Agent: git/oxide-" \o CARGO_PKG_VERSION,
                         "Git-Protocol: version=2">>

\* C10 witness: a handshake of a V2 Transport whose URL has no trailing slash
C10_Witness ==
    /\ last.op = "handshake"
    /\ self.version = "V2"
    /\ ~ends_with_slash(self.url)
    /\ HasLine(last.sent[1].headers, "Git-Protocol: version=2")

\* C11: check_content_type on a header set whose lines can all be read
\* returns Ok exactly when some line equals
\* "Content-Type: application/x-<token>-<kind>" character for character, and
\* the protocol-mismatch error otherwise (a line followed by
\* "; charset=utf-8" or written in another case does not count); a header
\* set that cannot be read returns the I/O error.
C11_ExactLineMatch ==
    (pure.fn = "check_content_type" /\ pure.done) =>
        LET wanted == "Content-Type: application/x-" \o as_str(pure.args[1])
                          \o "-" \o pure.args[2]
            headers == pure.args[3]
        IN  IF HasLine(headers, LineError)
            THEN pure.result = Some("Io")
            ELSE IF HasLine(headers, wanted)
            THEN pure.result = Some("Ok")
            ELSE pure.result = Some("Detail")

\* C11 witness: the only Content-Type line carries "; charset=utf-8"
C11_Witness ==
    /\ pure.fn = "check_content_type"
    /\ pure.done
    /\ pure.args = <<"UploadPack", "advertisement",
                     <<"Content-Type: application/x-git-upload-pack-advertisement; charset=utf-8">>>>
    /\ pure.result = Some("Detail")

\* C13: append_url(base, suffix) is base + suffix when base ends with "/",
\* and base + "/" + suffix otherwise.
C13_AppendUrl ==
    (pure.fn = "append_url" /\ pure.done) =>
        LET base == pure.args[1]
            suffix == pure.args[2]
        IN  Flat(pure.result) =
                IF Len(base) > 0 /\ base[Len(base)] = "/"
                THEN Flat(base) \o Flat(suffix)
                ELSE Flat(base) \o "/" \o Flat(suffix)

\* C13 witness: a base ending with "/" and a suffix beginning with one
C13_Witness ==
    /\ pure.fn = "append_url"
    /\ pure.done
    /\ pure.args = <<<<"repo.git", "/">>, <<"/", "info">>>>
    /\ Flat(pure.result) = "repo.git//info"

\* C12: a handshake call issues exactly one GET and no POST, a request call
\* that passes its precondition exactly one POST and no GET, whatever the
\* backend answers; when the backend call fails the call returns that error
\* and leaves the Transport (service, reader and the stream it is bound to)
\* as it was.
C12_BackendFailurePropagated ==
    [][last'.n = last.n + 1 =>
          /\ last'.op = "handshake" =>
                /\ Len(last'.sent) = 1
                /\ last'.sent[1].verb = "GET"
                /\ gets' = gets + 1
                /\ posts' = posts
          /\ (last'.op = "request" /\ self.service # None) =>
                /\ Len(last'.sent) = 1
                /\ last'.sent[1].verb = "POST"
                /\ posts' = posts + 1
                /\ gets' = gets
          /\ (last'.sent # <<>> /\ last'.headers = None) =>
                /\ last'.outcome = "Err"
                /\ last'.error = "Backend"
                /\ self' = self
                /\ reply' = None]_vars

\* C12 witness: the POST of a request failed on a Transport with a reader
C12_Witness ==
    /\ last.op = "request"
    /\ last.error = "Backend"
    /\ posts = 1
    /\ self.line_provider # None

\* C14: a handshake call that passes the content-type gate reads the
\* announcement from the body of the GET response of that same call.
C14_HandshakeReadsOwnBody ==
    (last.op = "handshake" /\ last.read_from # None) =>
        last.read_from = Some([verb |-> "GET", n |-> last.n])

\* C15: while the reply stream of a request is alive, the reader is the one
\* an earlier handshake made, it is bound to the POST response body of that
\* request, and the lines read from the reply stream are lines of that body.
C15_ReplyServedFromPostBody ==
    reply # None =>
        /\ last.op = "request"
        /\ reply[1].body.id = [verb |-> "POST", n |-> last.n]
        /\ self.line_provider # None
        /\ self.line_provider[1].origin = reply[1].body.id
        /\ self.line_provider[1].created < last.n
        /\ IsPrefix(reply[1].delivered, UpToFlush(reply[1].body.items))
        /\ Len(self.line_provider[1].inner) <= Len(reply[1].body.items)
        /\ self.line_provider[1].inner =
              SubSeq(reply[1].body.items,
                     Len(reply[1].body.items) - Len(self.line_provider[1].inner) + 1,
                     Len(reply[1].body.items))

\* C15 witness: a second request's reply stream delivered a line
C15_Witness ==
    /\ reply # None
    /\ posts = 2
    /\ reply[1].delivered = <<"NAK\n">>

\* C16: a read or fill_buf that finds the header set present and the check
\* failing returns an error, leaves the body as it is and clears the header
\* set; a read or fill_buf that finds no header set runs no check and
\* returns what the body returns.
C16_FailedCheckClearsHeaders ==
    [][(wlast'.n = wlast.n + 1 /\ wlast'.op \in {"read", "fill_buf"}) =>
          IF wrapper.headers = None
          THEN /\ wlast'.checks = wlast.checks
               /\ wlast'.result = "Ok"
               /\ wlast'.delegated = wlast.delegated + 1
               /\ wlast'.data = IF wlast'.op = "fill_buf" THEN wrapper.body.chunks
                                ELSE SubSeq(wrapper.body.chunks, 1,
                                            IF wrapper.body.chunks = <<>> THEN 0 ELSE 1)
               /\ wrapper'.headers = None
          ELSE /\ wlast'.checks = wlast.checks + 1
               /\ wrapper'.headers = None
               /\ ~HasLine(wrapper.headers[1],
                           "Content-Type: application/x-" \o as_str(wrapper.service) \o "-result")
                  => /\ wlast'.result = "Err"
                     /\ wlast'.delegated = wlast.delegated
                     /\ wrapper'.body = wrapper.body]_vars

\* C16 witness: the first read failed the check and a later one returned data
C16_Witness ==
    /\ wlast.first = "Err"
    /\ wlast.readlike >= 2
    /\ wlast.op \in {"read", "fill_buf"}
    /\ wlast.result = "Ok"
    /\ wlast.data # <<>>
    /\ wlast.checks = 1

\* C17: after a handshake(s) call that returned Ok the service is s and the
\* returned actual_protocol is the Transport's version; after a handshake
\* call that returned an error the service is what it was before the call.
C17_ServiceRecordedLast ==
    last.op = "handshake" =>
        IF last.outcome = "Ok"
        THEN /\ self.service = last.arg
             /\ last.response # None
             /\ last.response[1].actual_protocol = self.version
        ELSE /\ self.service = last.prior
             /\ last.response = None

\* C17 witness: a successful handshake of a V2 Transport
C17_Witness ==
    /\ last.op = "handshake"
    /\ last.outcome = "Ok"
    /\ self.version = "V2"
    /\ self.service = Some("ReceivePack")
    /\ last.response[1].actual_protocol = "V2"

\* C18: whenever the service is set the reader is set, and no request call
\* panics after having issued its POST.
C18_ServiceImpliesReader ==
    /\ self.service # None => self.line_provider # None
    /\ ~(last.op = "request" /\ last.outcome = "Panic" /\ last.sent # <<>>)

\* C18 witness: a request passed the precondition, issued its POST and
\* returned Ok
C18_Witness ==
    /\ last.op = "request"
    /\ last.outcome = "Ok"
    /\ posts = 1
    /\ self.service # None
    /\ self.line_provider # None

====
